---- MODULE Spec2Model ----
(***************************************************************************)
(* A model of the Game of Life engine of src/src/engine.rs: the            *)
(* DoubleBuffer of two Option<Vec<Cell>> slots and the World built on it   *)
(* (new, width, height, set_cell, cell_at, neighbour_count, next_gen,      *)
(* index).  Every operation is an operator computed the way the code       *)
(* computes it, panics included; the actions apply one public call each.   *)
(***************************************************************************)
EXTENDS Integers, Sequences, FiniteSets, TLC

(***************************************************************************)
(* Bounds of the model.                                                    *)
(***************************************************************************)
\* The widest and the tallest grid World::new is called with.
MaxWidth == 3
MaxHeight == 3
\* The number of set_cell calls that change a cell (those that write the value
\* the cell holds are not limited) and the number of next_gen calls made on a
\* world after its construction.
MaxEdits == 3
MaxGens == 2
\* The calls made after construction when the caller breaks the contract.
MaxMisuseCalls == 2
\* How far below zero a dimension, and how far outside the grid a coordinate,
\* the contract-breaking caller passes.
Slack == 1
\* The game: the widest and tallest world State::new is given, the mouse
\* events that change a cell, the timer callbacks, and the timers resume
\* registers.
MaxBoard == 2
MaxPaints == 2
MaxTicks == 2
MaxTimers == 2

(***************************************************************************)
(* enum Cell, Option<T>, and the panics of the operations.                 *)
(***************************************************************************)
Alive == "Alive"
Dead == "Dead"
Cell == {Alive, Dead}

None == <<>>
Some(v) == <<v>>
is_some(o) == o # None
unwrap(o) == o[1]

NoPanic == "none"
UnwrapNone == "called Option::unwrap() on a None value"
IndexOutOfBounds == "index out of bounds"
DivideByZero == "attempt to divide by zero"
CapacityOverflow == "capacity overflow"

(***************************************************************************)
(* `as usize` of an i32.  A negative i32 becomes a value of at least 2^31  *)
(* (2^32 + i on wasm32, 2^64 + i on a 64-bit target), which is above the   *)
(* length of every Vec (at most isize::MAX); UsizeOfNegative stands for    *)
(* that value, which the code only ever compares with a length or divides  *)
(* a length by.                                                            *)
(***************************************************************************)
UsizeOfNegative == 2147483647
as_usize(i) == IF i >= 0 THEN i ELSE UsizeOfNegative

(***************************************************************************)
(* A Vec<Cell> is its cells (cells[i+1] is element i) and the identity of  *)
(* its allocation: `first` for the vector the factory returns first,       *)
(* `second` for the other.  The identity is never read by an operation.    *)
(***************************************************************************)
\* push_dead with the vector filled with Alive cells.
RECURSIVE push_alive(_, _)
push_alive(vec, n) == IF n <= 0 THEN vec ELSE push_alive(Append(vec, Alive), n - 1)

RECURSIVE push_dead(_, _)
push_dead(vec, n) == IF n <= 0 THEN vec ELSE push_dead(Append(vec, Dead), n - 1)

\* new_vec with the loop running over 1..length: one cell short.
new_vec_short(width, height, id) ==
    IF as_usize(width * height) >= UsizeOfNegative
    THEN [vec |-> None, panic |-> CapacityOverflow]
    ELSE [vec |-> Some([id |-> id, cells |-> push_dead(<<>>, as_usize(width * height) - 1)]),
          panic |-> NoPanic]

\* The factory closure of World::new: a vector of (width * height) as usize
\* Dead cells.  A negative product asks with_capacity for more than
\* isize::MAX bytes, which panics.
new_vec(width, height, id) ==
    LET length == as_usize(width * height)
    IN  IF length >= UsizeOfNegative
        THEN [vec |-> None, panic |-> CapacityOverflow]
        ELSE [vec |-> Some([id |-> id, cells |-> push_dead(<<>>, length)]),
              panic |-> NoPanic]

\* DoubleBuffer::new: back is built first, front second.
DoubleBuffer_new(width, height) ==
    LET b == new_vec(width, height, "first")
        f == new_vec(width, height, "second")
    IN  IF b.panic # NoPanic THEN [cells |-> [back |-> None, front |-> None], panic |-> b.panic]
        ELSE IF f.panic # NoPanic THEN [cells |-> [back |-> None, front |-> None], panic |-> f.panic]
        ELSE [cells |-> [back |-> b.vec, front |-> f.vec], panic |-> NoPanic]

\* swap putting the back vector in both slots: the front vector is lost.
swap_duplicating(db) ==
    IF ~is_some(db.back)
    THEN [cells |-> db, panic |-> UnwrapNone]
    ELSE [cells |-> [back |-> Some(unwrap(db.back)), front |-> Some(unwrap(db.back))],
          panic |-> NoPanic]

\* DoubleBuffer::swap.
swap(db) ==
    IF ~is_some(db.back)
    THEN [cells |-> db, panic |-> UnwrapNone]
    ELSE [cells |-> [back |-> db.front, front |-> Some(unwrap(db.back))],
          panic |-> NoPanic]

\* No World value: what a failed construction leaves.
NoWorld == [stride |-> 0, cells |-> [back |-> None, front |-> None]]

\* World::new.
new(width, height) ==
    LET db == DoubleBuffer_new(width, height)
    IN  IF db.panic # NoPanic
        THEN [world |-> NoWorld, panic |-> db.panic]
        ELSE [world |-> [stride |-> width, cells |-> db.cells], panic |-> NoPanic]

\* The cells of the front and of the back vector of a world whose slots are full.
front_cells(w) == unwrap(w.cells.front).cells
back_cells(w) == unwrap(w.cells.back).cells

\* World::width.
width(w) == w.stride

\* World::height: len / (stride as usize), as i32.
height(w) ==
    IF ~is_some(w.cells.front) THEN [value |-> 0, panic |-> UnwrapNone]
    ELSE IF w.stride = 0 THEN [value |-> 0, panic |-> DivideByZero]
    ELSE [value |-> Len(front_cells(w)) \div as_usize(w.stride), panic |-> NoPanic]

\* World::index, on the stride and on the world.
index_of(stride, x, y) == as_usize(stride * y + x)
index(w, x, y) == index_of(w.stride, x, y)

\* set_cell writing through back_mut() instead of front_mut().
set_cell_back(w, x, y, cell) ==
    IF ~is_some(w.cells.back) THEN [world |-> w, panic |-> UnwrapNone]
    ELSE IF as_usize(w.stride * y + x) >= Len(unwrap(w.cells.back).cells)
    THEN [world |-> w, panic |-> IndexOutOfBounds]
    ELSE [world |-> [w EXCEPT !.cells.back =
                        Some([unwrap(@) EXCEPT !.cells[as_usize(w.stride * y + x) + 1] = cell])],
          panic |-> NoPanic]

\* set_cell with the index of the transposed point, stride * x + y.
set_cell_transposed(w, x, y, cell) ==
    IF ~is_some(w.cells.front) THEN [world |-> w, panic |-> UnwrapNone]
    ELSE IF as_usize(w.stride * x + y) >= Len(front_cells(w))
    THEN [world |-> w, panic |-> IndexOutOfBounds]
    ELSE [world |-> [w EXCEPT !.cells.front =
                        Some([unwrap(@) EXCEPT !.cells[as_usize(w.stride * x + y) + 1] = cell])],
          panic |-> NoPanic]

\* World::set_cell.
set_cell(w, x, y, cell) ==
    LET i == index(w, x, y)
    IN  IF ~is_some(w.cells.front) THEN [world |-> w, panic |-> UnwrapNone]
        ELSE IF i >= Len(front_cells(w)) THEN [world |-> w, panic |-> IndexOutOfBounds]
        ELSE [world |-> [w EXCEPT !.cells.front = Some([unwrap(@) EXCEPT !.cells[i + 1] = cell])],
              panic |-> NoPanic]

\* World::cell_at.
cell_at(w, x, y) ==
    LET i == index(w, x, y)
    IN  IF ~is_some(w.cells.front) THEN [value |-> Dead, panic |-> UnwrapNone]
        ELSE IF i >= Len(front_cells(w)) THEN [value |-> Dead, panic |-> IndexOutOfBounds]
        ELSE [value |-> front_cells(w)[i + 1], panic |-> NoPanic]

\* neighbour_dest without the comparison of dest_index with the length.
neighbour_dest_unchecked(stride, len, x, y, x_dir, y_dir) ==
    IF x + x_dir < 0 \/ y + y_dir < 0 \/ (x_dir = 0 /\ y_dir = 0) THEN -1
    ELSE as_usize(stride * (y + y_dir) + (x + x_dir))

\* neighbour_dest without the exclusion of the cell itself.
neighbour_dest_self(stride, len, x, y, x_dir, y_dir) ==
    IF x + x_dir < 0 \/ y + y_dir < 0 THEN -1
    ELSE IF as_usize(stride * (y + y_dir) + (x + x_dir)) >= len THEN -1
    ELSE as_usize(stride * (y + y_dir) + (x + x_dir))

\* The index a pass of the inner loop of neighbour_count reads the front
\* vector (of length len) at, for the direction (x_dir, y_dir); Skipped when
\* the pass ends at one of its two `continue`s.
Skipped == -1
neighbour_dest(stride, len, x, y, x_dir, y_dir) ==
    LET dest_x == x + x_dir
        dest_y == y + y_dir
    IN  IF dest_x < 0 \/ dest_y < 0 \/ (dest_x = x /\ dest_y = y) THEN Skipped
        ELSE IF index_of(stride, dest_x, dest_y) >= len THEN Skipped
        ELSE index_of(stride, dest_x, dest_y)

\* The reads of the nine passes, in the order of the two loops over dir, and
\* whether one of them is outside the vector (its indexed read panics).
neighbour_reads(stride, len, x, y) ==
    LET r == <<neighbour_dest(stride, len, x, y, -1, -1), neighbour_dest(stride, len, x, y, -1, 0),
               neighbour_dest(stride, len, x, y, -1, 1), neighbour_dest(stride, len, x, y, 0, -1),
               neighbour_dest(stride, len, x, y, 0, 0), neighbour_dest(stride, len, x, y, 0, 1),
               neighbour_dest(stride, len, x, y, 1, -1), neighbour_dest(stride, len, x, y, 1, 0),
               neighbour_dest(stride, len, x, y, 1, 1)>>
    IN  [r |-> r, outside |-> \E k \in 1..9 : r[k] # Skipped /\ r[k] >= len]

\* neighbour_reads of every cell of every grid World::new builds from positive
\* dimensions, evaluated once: reads_memo[s][h][s * y + x + 1] is
\* neighbour_reads(s, s * h, x, y).  It only saves evaluating them again.
reads_memo ==
    [s \in 1..MaxWidth |-> [h \in 1..MaxHeight |->
        [k \in 1..(s * h) |-> neighbour_reads(s, s * h, (k - 1) % s, (k - 1) \div s)]]]

reads_of(stride, len, x, y) ==
    IF /\ 1 <= stride /\ stride <= MaxWidth /\ len % stride = 0
       /\ stride <= len /\ len <= stride * MaxHeight
       /\ 0 <= x /\ x < stride /\ 0 <= y /\ stride * y < len
    THEN reads_memo[stride][len \div stride][stride * y + x + 1]
    ELSE neighbour_reads(stride, len, x, y)

\* What a pass that reads index i adds to count.
neighbour_add(cells, i) == IF i # Skipped /\ cells[i + 1] = Alive THEN 1 ELSE 0

\* neighbour_sum with count starting at 1 instead of 0.
neighbour_sum_from_one(cells, reads) ==
    IF reads.outside
    THEN [value |-> 0, panic |-> IndexOutOfBounds]
    ELSE [value |-> 1 + Cardinality({k \in 1..9 : reads.r[k] # Skipped /\ cells[reads.r[k] + 1] = Alive}),
          panic |-> NoPanic]

\* count after the nine passes reading `cells` at `reads.r`, or the panic of
\* the first read outside the vector.
neighbour_sum(cells, reads) ==
    IF reads.outside
    THEN [value |-> 0, panic |-> IndexOutOfBounds]
    ELSE [value |-> neighbour_add(cells, reads.r[1]) + neighbour_add(cells, reads.r[2])
                    + neighbour_add(cells, reads.r[3]) + neighbour_add(cells, reads.r[4])
                    + neighbour_add(cells, reads.r[5]) + neighbour_add(cells, reads.r[6])
                    + neighbour_add(cells, reads.r[7]) + neighbour_add(cells, reads.r[8])
                    + neighbour_add(cells, reads.r[9]),
          panic |-> NoPanic]

\* World::neighbour_count.
neighbour_count(w, x, y) ==
    IF ~is_some(w.cells.front) THEN [value |-> 0, panic |-> UnwrapNone]
    ELSE neighbour_sum(front_cells(w), reads_of(w.stride, Len(front_cells(w)), x, y))

\* rule with the pattern 0..2 read as the inclusive 0..=2.
rule_inclusive(cell, n) ==
    IF cell = Alive
    THEN IF n >= 0 /\ n <= 2 THEN Dead
         ELSE IF n = 3 THEN Alive
         ELSE Dead
    ELSE IF n = 3 THEN Alive ELSE Dead

\* rule with the first pattern 0..1 in place of 0..2: an Alive cell with one
\* neighbour survives.
rule_survive_one(cell, n) ==
    IF cell = Alive
    THEN IF n >= 0 /\ n < 1 THEN Dead
         ELSE IF n >= 1 /\ n <= 3 THEN Alive
         ELSE Dead
    ELSE IF n = 3 THEN Alive ELSE Dead

\* The rules of next_gen: the match on neighbour_count of an Alive cell and
\* the test of a Dead one.
rule(cell, n) ==
    IF cell = Alive
    THEN IF n >= 0 /\ n < 2 THEN Dead
         ELSE IF n >= 2 /\ n <= 3 THEN Alive
         ELSE Dead
    ELSE IF n = 3 THEN Alive ELSE Dead

\* next_gen_pass taking the cell's current state from the back vector.
next_gen_pass_back(w, row, col) ==
    IF neighbour_count(w, row, col).panic # NoPanic
    THEN [i |-> index(w, row, col), cell |-> Dead, panic |-> neighbour_count(w, row, col).panic]
    ELSE IF index(w, row, col) >= Len(front_cells(w)) \/ index(w, row, col) >= Len(back_cells(w))
    THEN [i |-> index(w, row, col), cell |-> Dead, panic |-> IndexOutOfBounds]
    ELSE [i |-> index(w, row, col),
          cell |-> rule(back_cells(w)[index(w, row, col) + 1], neighbour_count(w, row, col).value),
          panic |-> NoPanic]

\* One pass of the inner loop body of next_gen at (row, col): the index and the
\* cell it writes to the back vector, or its panic.
next_gen_pass(w, row, col) ==
    LET i == index(w, row, col)
        n == neighbour_count(w, row, col)
    IN  IF n.panic # NoPanic THEN [i |-> i, cell |-> Dead, panic |-> n.panic]
        ELSE IF i >= Len(front_cells(w)) \/ i >= Len(back_cells(w))
        THEN [i |-> i, cell |-> Dead, panic |-> IndexOutOfBounds]
        ELSE [i |-> i, cell |-> rule(front_cells(w)[i + 1], n.value), panic |-> NoPanic]

\* The passes of the two loops of next_gen, col in 0..height and row in
\* 0..width, in their order: pass k is (row, col) = ((k-1) % width,
\* (k-1) / width).
next_gen_passes(w, wd, ht) ==
    IF wd <= 0 \/ ht <= 0 THEN <<>>
    ELSE [k \in 1..(wd * ht) |-> next_gen_pass(w, (k - 1) % wd, (k - 1) \div wd)]

\* next_gen_back writing only the cells that come out Alive.
next_gen_back_stale(w, passes) ==
    [j \in 1..Len(unwrap(w.cells.back).cells) |->
        IF j <= Len(passes) /\ passes[passes[j].i + 1].cell = Alive
        THEN Alive
        ELSE unwrap(w.cells.back).cells[j]]

\* The back vector after the passes.  Every pass reads the front vector and
\* writes the back one, so no pass reads what another wrote; pass k writes
\* index(row, col) = stride * col + row = k - 1, width() being the stride.
next_gen_back(w, passes) ==
    [j \in 1..Len(back_cells(w)) |->
        IF j <= Len(passes) THEN passes[passes[j].i + 1].cell ELSE back_cells(w)[j]]

\* World::next_gen: the loops, then the swap.  A pass that panics ends the
\* process: the half-written back vector is never read again, and is left out.
next_gen(w) ==
    LET h == height(w)
    IN  IF h.panic # NoPanic THEN [world |-> w, panic |-> h.panic]
        ELSE IF ~is_some(w.cells.back) THEN [world |-> w, panic |-> UnwrapNone]
        ELSE LET passes == next_gen_passes(w, width(w), h.value)
                 bad == {k \in 1..Len(passes) : passes[k].panic # NoPanic}
             IN  IF bad # {}
                 THEN [world |-> w, panic |-> passes[CHOOSE k \in bad : \A m \in bad : k <= m].panic]
                 ELSE LET filled == [w.cells EXCEPT !.back =
                                        Some([unwrap(@) EXCEPT !.cells = next_gen_back(w, passes)])]
                          s == swap(filled)
                      IN  [world |-> [w EXCEPT !.cells = s.cells], panic |-> s.panic]

(***************************************************************************)
(* The state: the World value and the panic that ended the process, if     *)
(* any.  The other variables record the run and are read by no operation:  *)
(* the arguments of World::new, the last call, what cell_at returned, the  *)
(* world as it was before the current run of consecutive next_gen calls,   *)
(* the length of that run, and the numbers of calls counted.                  *)
(***************************************************************************)
VARIABLES world, panic, dims, op, ret, gen0, ticks, edits, gens

(***************************************************************************)
(* The state of game.rs around the World: the fields of StateInner beside  *)
(* the world (is_mouse_down, timer_closure, timer_id), whether the RefCell *)
(* of the StateInner is mutably borrowed, what the canvas shows, and the   *)
(* host's side of the timers: the interval ids registered with the window  *)
(* and the number of ids it has handed out.  last_button records the last  *)
(* mouse button event and is read by no operation.  The engine's own       *)
(* specifications leave all of them as State::new builds them.             *)
(***************************************************************************)
VARIABLES inner, borrowed, canvas, host, last_button

gvars == <<inner, borrowed, canvas, host, last_button>>
vars == <<world, panic, dims, op, ret, gen0, ticks, edits, gens,
          inner, borrowed, canvas, host, last_button>>

\* StateInner as State::new builds it, the blank canvas of Canvas::new, and a
\* window with no interval registered.
NoTimer == -1
StateInner_new == [is_mouse_down |-> FALSE, timer_closure |-> None, timer_id |-> NoTimer]
NoButton == "none"
State_new ==
    /\ inner = StateInner_new
    /\ borrowed = FALSE
    /\ canvas = {}
    /\ host = [intervals |-> {}, made |-> 0]
    /\ last_button = NoButton

NoRet == "none"

\* The state after World::new(w, h): a call that panics leaves no World.
Constructed(w, h) ==
    LET r == new(w, h)
    IN  /\ world = r.world
        /\ panic = r.panic
        /\ dims = <<w, h>>
        /\ op = "new"
        /\ ret = NoRet
        /\ gen0 = r.world
        /\ ticks = 0
        /\ edits = 0
        /\ gens = 0
        /\ State_new

\* lib.rs constructs the world with positive dimensions.
Init == \E w \in 1..MaxWidth, h \in 1..MaxHeight : Constructed(w, h)

\* The caller that may break the contract of new.
InitMisuse == \E w \in (0 - Slack)..MaxWidth, h \in (0 - Slack)..MaxHeight : Constructed(w, h)


\* The coordinates of the grid, by width() and height().
InRange(w, x, y) ==
    /\ 0 <= x /\ x < width(w)
    /\ 0 <= y /\ height(w).panic = NoPanic /\ y < height(w).value

\* A call of set_cell(x, y, c).
DoSetCell(x, y, c) ==
    LET r == set_cell(world, x, y, c)
    IN  /\ world' = r.world
        /\ panic' = r.panic
        /\ op' = "set_cell"
        /\ ret' = NoRet
        /\ gen0' = r.world
        /\ ticks' = 0
        /\ edits' = IF r.world = world THEN edits ELSE edits + 1
        /\ UNCHANGED <<dims, gens>>

\* A call of cell_at(x, y).
DoCellAt(x, y) ==
    LET r == cell_at(world, x, y)
    IN  /\ panic' = r.panic
        /\ op' = "cell_at"
        /\ ret' = IF r.panic = NoPanic THEN r.value ELSE NoRet
        /\ UNCHANGED <<world, dims, gen0, ticks, edits, gens>>

\* A call of next_gen().
DoNextGen ==
    LET r == next_gen(world)
    IN  /\ world' = r.world
        /\ panic' = r.panic
        /\ op' = "next_gen"
        /\ ret' = NoRet
        /\ ticks' = ticks + 1
        /\ gens' = gens + 1
        /\ UNCHANGED <<dims, gen0, edits>>

Grid == (0..(MaxWidth - 1)) \X (0..(MaxHeight - 1))

\* set_cell with coordinates of the grid (State::put_cell, generate_initial_world).
SetCell ==
    /\ panic = NoPanic /\ edits < MaxEdits
    /\ \E p \in Grid, c \in Cell : InRange(world, p[1], p[2]) /\ DoSetCell(p[1], p[2], c)
    /\ UNCHANGED gvars

\* next_gen (State::tick).
NextGen == panic = NoPanic /\ gens < MaxGens /\ DoNextGen /\ UNCHANGED gvars

Next == SetCell \/ NextGen

Spec == Init /\ [][Next]_vars

(***************************************************************************)
(* The caller that breaks the contract: any dimensions, and coordinates    *)
(* inside and outside the grid.                                            *)
(***************************************************************************)
Coords == ((0 - Slack)..(MaxWidth - 1 + Slack)) \X ((0 - Slack)..(MaxHeight - 1 + Slack))

Misusing == panic = NoPanic /\ edits + gens < MaxMisuseCalls

SetCellAny ==
    /\ Misusing
    /\ \E p \in Coords, c \in Cell : DoSetCell(p[1], p[2], c)
    /\ UNCHANGED gvars

CellAtAny ==
    /\ Misusing /\ op # "cell_at"
    /\ \E p \in Coords : DoCellAt(p[1], p[2])
    /\ UNCHANGED gvars

NextGenAny == Misusing /\ DoNextGen /\ UNCHANGED gvars

NextMisuse == SetCellAny \/ CellAtAny \/ NextGenAny

SpecMisuse == InitMisuse /\ [][NextMisuse]_vars

(***************************************************************************)
(* neighbour_count as a function of the grid: the worlds of every content  *)
(* of the front vector (what set_cell calls on a new world can build), and *)
(* a call of neighbour_count on a cell of the grid.                        *)
(***************************************************************************)
WithFront(w, h, f) ==
    [stride |-> w,
     cells |-> [back |-> new(w, h).world.cells.back,
                front |-> Some([id |-> "second", cells |-> f])]]

InitFronts ==
    \E w \in 1..MaxWidth, h \in 1..MaxHeight : \E f \in [1..(w * h) -> Cell] :
        /\ world = WithFront(w, h, f)
        /\ panic = NoPanic
        /\ dims = <<w, h>>
        /\ op = "set_cell"
        /\ ret = NoRet
        /\ gen0 = WithFront(w, h, f)
        /\ ticks = 0
        /\ edits = 0
        /\ gens = 0
        /\ State_new

\* A call of neighbour_count(x, y).
DoNeighbourCount(x, y) ==
    LET r == neighbour_count(world, x, y)
    IN  /\ panic' = r.panic
        /\ op' = "neighbour_count"
        /\ ret' = r.value
        /\ UNCHANGED <<world, dims, gen0, ticks, edits, gens>>

\* neighbour_count changes no variable of the program, so a call made after
\* another one returns what it would have returned before it.
NeighbourCount ==
    /\ panic = NoPanic /\ op # "neighbour_count"
    /\ \E p \in Grid : InRange(world, p[1], p[2]) /\ DoNeighbourCount(p[1], p[2])
    /\ UNCHANGED gvars

NextFronts == NeighbourCount

SpecFronts == InitFronts /\ [][NextFronts]_vars

(***************************************************************************)
(* game.rs: the State handle around Rc<RefCell<StateInner>>.  A game state *)
(* `st` is the StateInner (its world included) with the borrow flag of its *)
(* RefCell, the canvas and the host's timers; each operation returns the   *)
(* state it leaves and its panic.  A panic ends the call where it happens: *)
(* nothing is unwound, so a borrow held then is never released.            *)
(***************************************************************************)
AlreadyBorrowed == "already borrowed: BorrowMutError"

\* State::get_inner: RefCell::borrow_mut.
get_inner(st) ==
    IF st.borrowed
    THEN [st |-> st, panic |-> AlreadyBorrowed]
    ELSE [st |-> [st EXCEPT !.borrowed = TRUE], panic |-> NoPanic]

\* The drop of the RefMut that get_inner returned.
release(st) == [st EXCEPT !.borrowed = FALSE]

\* window.set_interval_with_callback_..., which registers the callback under
\* an id the host has not handed out before, and window.clear_interval_with_handle.
set_interval(h) == [h EXCEPT !.intervals = @ \cup {h.made + 1}, !.made = @ + 1]
clear_interval(h, id) == [h EXCEPT !.intervals = @ \ {id}]

\* The closure of resume: it owns state_clone, a State handle.
TimerClosure == [state_clone |-> "State"]

RECURSIVE pause(_)

\* impl Drop for State.
State_drop(st) == pause(st)

\* The drop of the Box<Closure> that timer_closure held, outside a call of
\* the closure: the closure's captures are dropped with it, state_clone among
\* them.
Closure_drop(st, closure) == State_drop(st)

\* State::pause.  The assignment of None to timer_closure drops the closure
\* it held before the new value is written and while `inner` is alive.
pause(st) ==
    LET b == get_inner(st)
    IN  IF b.panic # NoPanic THEN b
        ELSE IF ~is_some(b.st.inner.timer_closure)
        THEN [st |-> release(b.st), panic |-> NoPanic]
        ELSE LET cleared == [b.st EXCEPT !.host = clear_interval(@, b.st.inner.timer_id)]
                 dropped == Closure_drop(cleared, unwrap(cleared.inner.timer_closure))
             IN  IF dropped.panic # NoPanic THEN dropped
                 ELSE [st |-> release([dropped.st EXCEPT !.inner.timer_closure = None,
                                                        !.inner.timer_id = NoTimer]),
                       panic |-> NoPanic]

\* State::resume.
resume(st) ==
    LET b == get_inner(st)
    IN  IF b.panic # NoPanic THEN b
        ELSE IF is_some(b.st.inner.timer_closure)
        THEN [st |-> release(b.st), panic |-> NoPanic]
        ELSE [st |-> release([b.st EXCEPT !.host = set_interval(@),
                                          !.inner.timer_closure = Some(TimerClosure),
                                          !.inner.timer_id = b.st.host.made + 1]),
              panic |-> NoPanic]

\* State::update_canvas: clear, then draw_cell for every cell that cell_at
\* finds Alive.  The canvas is the set of the cells drawn.
update_canvas(st) ==
    LET b == get_inner(st)
        h == height(b.st.world)
        points == (0..(width(b.st.world) - 1)) \X (0..(h.value - 1))
    IN  IF b.panic # NoPanic THEN b
        ELSE IF h.panic # NoPanic THEN [st |-> [b.st EXCEPT !.canvas = {}], panic |-> h.panic]
        ELSE IF \E q \in points : cell_at(b.st.world, q[1], q[2]).panic # NoPanic
        THEN [st |-> [b.st EXCEPT !.canvas = {}], panic |-> IndexOutOfBounds]
        ELSE [st |-> release([b.st EXCEPT !.canvas =
                        {q \in points : cell_at(b.st.world, q[1], q[2]).value = Alive}]),
              panic |-> NoPanic]

\* State::put_cell: set_cell(x, y, Alive) under a borrow of its own, then
\* update_canvas.
put_cell(st, x, y) ==
    LET b == get_inner(st)
        r == set_cell(b.st.world, x, y, Alive)
    IN  IF b.panic # NoPanic THEN b
        ELSE IF r.panic # NoPanic THEN [st |-> b.st, panic |-> r.panic]
        ELSE update_canvas(release([b.st EXCEPT !.world = r.world]))

\* State::tick: next_gen under a borrow of its own, then update_canvas.
tick(st) ==
    LET b == get_inner(st)
        r == next_gen(b.st.world)
    IN  IF b.panic # NoPanic THEN b
        ELSE IF r.panic # NoPanic THEN [st |-> b.st, panic |-> r.panic]
        ELSE update_canvas(release([b.st EXCEPT !.world = r.world]))

\* on_mouse_move calling put_cell whatever is_mouse_down holds.
on_mouse_move_ungated(st, x, y) ==
    IF get_inner(st).panic # NoPanic THEN get_inner(st)
    ELSE put_cell(release(get_inner(st).st), x, y)

\* UiResponder::on_mouse_down.
on_mouse_down(st, x, y) ==
    LET b == get_inner(st)
    IN  IF b.panic # NoPanic THEN b
        ELSE put_cell(release([b.st EXCEPT !.inner.is_mouse_down = TRUE]), x, y)

\* UiResponder::on_mouse_move.
on_mouse_move(st, x, y) ==
    LET b == get_inner(st)
    IN  IF b.panic # NoPanic THEN b
        ELSE IF ~b.st.inner.is_mouse_down THEN [st |-> release(b.st), panic |-> NoPanic]
        ELSE put_cell(release(b.st), x, y)

\* UiResponder::on_mouse_up.
on_mouse_up(st) ==
    LET b == get_inner(st)
    IN  IF b.panic # NoPanic THEN b
        ELSE [st |-> release([b.st EXCEPT !.inner.is_mouse_down = FALSE]), panic |-> NoPanic]

(***************************************************************************)
(* The game as a state machine: the calls of the public State API (resume, *)
(* pause, the drop of a State handle) and the events the host delivers     *)
(* (the three mouse events of the canvas, the callback of a registered     *)
(* interval).  The host runs one of them at a time, each to its end.       *)
(***************************************************************************)
GameState ==
    [inner |-> inner, borrowed |-> borrowed, canvas |-> canvas, host |-> host, world |-> world]

\* The state a call leaves, r being what the operation returned.
Returned(r, call) ==
    /\ inner' = r.st.inner
    /\ borrowed' = r.st.borrowed
    /\ canvas' = r.st.canvas
    /\ host' = r.st.host
    /\ world' = r.st.world
    /\ panic' = r.panic
    /\ op' = call
    /\ ret' = NoRet
    /\ UNCHANGED dims

DoResume ==
    /\ Returned(resume(GameState), "resume")
    /\ UNCHANGED <<gen0, ticks, edits, gens, last_button>>

DoPause ==
    /\ Returned(pause(GameState), "pause")
    /\ UNCHANGED <<gen0, ticks, edits, gens, last_button>>

DoDrop ==
    /\ Returned(State_drop(GameState), "drop")
    /\ UNCHANGED <<gen0, ticks, edits, gens, last_button>>

DoOnMouseDown(x, y) ==
    LET r == on_mouse_down(GameState, x, y)
    IN  /\ Returned(r, "on_mouse_down")
        /\ last_button' = "down"
        /\ gen0' = r.st.world
        /\ ticks' = 0
        /\ edits' = IF r.st.world = world THEN edits ELSE edits + 1
        /\ UNCHANGED gens

DoOnMouseMove(x, y) ==
    LET r == on_mouse_move(GameState, x, y)
    IN  /\ Returned(r, "on_mouse_move")
        /\ gen0' = r.st.world
        /\ ticks' = 0
        /\ edits' = IF r.st.world = world THEN edits ELSE edits + 1
        /\ UNCHANGED <<gens, last_button>>

DoOnMouseUp ==
    /\ Returned(on_mouse_up(GameState), "on_mouse_up")
    /\ last_button' = "up"
    /\ UNCHANGED <<gen0, ticks, edits, gens>>

DoTick ==
    /\ Returned(tick(GameState), "tick")
    /\ ticks' = ticks + 1
    /\ gens' = gens + 1
    /\ UNCHANGED <<gen0, edits, last_button>>

\* lib.rs builds the State on a world of positive dimensions.
InitGame == \E w \in 1..MaxBoard, h \in 1..MaxBoard : Constructed(w, h)

\* The points the canvas maps the mouse to: the cells of the world.
Board == (0..(MaxBoard - 1)) \X (0..(MaxBoard - 1))

Resume == panic = NoPanic /\ host.made < MaxTimers /\ DoResume

Pause == panic = NoPanic /\ DoPause

Drop == panic = NoPanic /\ DoDrop

OnMouseDown ==
    /\ panic = NoPanic /\ edits < MaxPaints
    /\ \E p \in Board : InRange(world, p[1], p[2]) /\ DoOnMouseDown(p[1], p[2])

OnMouseMove ==
    /\ panic = NoPanic /\ edits < MaxPaints
    /\ \E p \in Board : InRange(world, p[1], p[2]) /\ DoOnMouseMove(p[1], p[2])

OnMouseUp == panic = NoPanic /\ DoOnMouseUp

\* The host calls the callback of an interval that is registered.
Tick == panic = NoPanic /\ gens < MaxTicks /\ host.intervals # {} /\ DoTick

NextGame ==
    \/ Resume
    \/ Pause
    \/ Drop
    \/ OnMouseDown
    \/ OnMouseMove
    \/ OnMouseUp
    \/ Tick

SpecGame == InitGame /\ [][NextGame]_vars

(***************************************************************************)
(* What the claims speak of.                                               *)
(***************************************************************************)
\* The cells of the grid of w that cell_at finds Alive.
AliveSet(w) ==
    {p \in Grid : InRange(w, p[1], p[2]) /\ cell_at(w, p[1], p[2]) = [value |-> Alive, panic |-> NoPanic]}

AllDead(cells) == \A i \in 1..Len(cells) : cells[i] = Dead

\* The rule as C1 states it.
StatedRule(c, n) ==
    CASE c = Alive /\ n < 2 -> Dead
      [] c = Alive /\ n \in {2, 3} -> Alive
      [] c = Alive /\ n > 3 -> Dead
      [] c = Dead /\ n = 3 -> Alive
      [] c = Dead /\ n # 3 -> Dead

\* The open-boundary Moore count of C2: the Alive cells among the eight
\* neighbours, a neighbour outside the grid counting as Dead.
MooreCount(w, x, y) ==
    Cardinality({d \in ({-1, 0, 1} \X {-1, 0, 1}) \ {<<0, 0>>} :
        /\ InRange(w, x + d[1], y + d[2])
        /\ cell_at(w, x + d[1], y + d[2]).value = Alive})

\* The blinker of C3 and C4 on a grid of at least 3 by 3.
IsBlinker(w) ==
    /\ is_some(w.cells.front)
    /\ width(w) >= 3 /\ height(w).panic = NoPanic /\ height(w).value >= 3
    /\ AliveSet(w) = {<<1, 0>>, <<1, 1>>, <<1, 2>>}

(***************************************************************************)
(* C1: after next_gen every cell of the grid holds the stated rule applied *)
(* to the cell and to its neighbour_count in the generation before.        *)
(***************************************************************************)
C1_NextGenAppliesRule ==
    [][(op' = "next_gen" /\ panic' = NoPanic) =>
         \A p \in Grid : InRange(world, p[1], p[2]) =>
            cell_at(world', p[1], p[2]) =
               [value |-> StatedRule(cell_at(world, p[1], p[2]).value,
                                     neighbour_count(world, p[1], p[2]).value),
                panic |-> NoPanic]]_vars

\* A generation in which a cell was born, one died and one survived.
C1_Witness ==
    /\ ticks = 1 /\ panic = NoPanic
    /\ AliveSet(world) \ AliveSet(gen0) # {}
    /\ AliveSet(gen0) \ AliveSet(world) # {}
    /\ AliveSet(gen0) \cap AliveSet(world) # {}

(***************************************************************************)
(* C2: neighbour_count of a cell of the grid is the open-boundary Moore    *)
(* count.  The code wraps dest_x = width into the next row.                *)
(***************************************************************************)
C2_NeighbourCountIsMoore ==
    panic = NoPanic =>
       \A p \in Grid : InRange(world, p[1], p[2]) =>
          neighbour_count(world, p[1], p[2]) =
             [value |-> MooreCount(world, p[1], p[2]), panic |-> NoPanic]

(***************************************************************************)
(* C3: two next_gen calls in a row take the blinker back to itself.        *)
(***************************************************************************)
C3_BlinkerPeriodTwo ==
    (ticks = 2 /\ IsBlinker(gen0)) =>
       (panic = NoPanic /\ front_cells(world) = front_cells(gen0))

(***************************************************************************)
(* C4: one next_gen call takes the blinker (1,0),(1,1),(1,2) to            *)
(* (0,1),(1,1),(2,1), every other cell Dead.                               *)
(***************************************************************************)
C4_BlinkerFirstStep ==
    (ticks = 1 /\ IsBlinker(gen0)) =>
       (panic = NoPanic /\ AliveSet(world) = {<<0, 1>>, <<1, 1>>, <<2, 1>>})

C4_Witness == ticks = 1 /\ IsBlinker(gen0) /\ panic = NoPanic

(***************************************************************************)
(* C5: a set_cell(x, y, c) of a cell of the grid is followed by a          *)
(* cell_at(x, y) that returns c, whichever vector is the front one.        *)
(***************************************************************************)
C5_WriteThenRead ==
    [][op' = "set_cell" =>
         \A p \in Grid, c \in Cell :
            (InRange(world, p[1], p[2]) /\ DoSetCell(p[1], p[2], c)) =>
               cell_at(world', p[1], p[2]) = [value |-> c, panic |-> NoPanic]]_vars

\* A set_cell that wrote Alive, and one that wrote Dead over an Alive cell,
\* while the vector allocated first is the front one (after a swap).
C5_Witness ==
    /\ op = "set_cell" /\ panic = NoPanic /\ gens = 1
    /\ unwrap(world.cells.front).id = "first"
    /\ AliveSet(world) # {}
    /\ front_cells(world) # back_cells(world)

(***************************************************************************)
(* C6: right after World::new with positive dimensions every cell of the   *)
(* grid reads Dead, and both vectors are entirely Dead.                    *)
(***************************************************************************)
C6_NewIsAllDead ==
    (op = "new" /\ dims[1] > 0 /\ dims[2] > 0) =>
       /\ panic = NoPanic
       /\ \A x \in 0..(dims[1] - 1), y \in 0..(dims[2] - 1) :
             cell_at(world, x, y) = [value |-> Dead, panic |-> NoPanic]
       /\ AllDead(front_cells(world)) /\ AllDead(back_cells(world))

C6_Witness == op = "new" /\ dims = <<MaxWidth, MaxHeight>> /\ Len(front_cells(world)) = MaxWidth * MaxHeight

(***************************************************************************)
(* C7: next_gen calls in a row on a generation with no Alive cell leave    *)
(* every cell Dead, whatever the back vector held.                         *)
(***************************************************************************)
C7_EmptyStaysEmpty ==
    (is_some(gen0.cells.front) /\ AllDead(front_cells(gen0))) =>
       (panic = NoPanic /\ AllDead(front_cells(world)))

\* The run started with Alive cells left in the back vector.
C7_Witness ==
    /\ ticks >= 1 /\ panic = NoPanic
    /\ AllDead(front_cells(gen0))
    /\ ~AllDead(back_cells(gen0))
    /\ AllDead(front_cells(world))

(***************************************************************************)
(* C8: set_cell and cell_at with coordinates outside the grid panic;       *)
(* set_cell then changes no cell and cell_at returns no cell.  The code    *)
(* panics only when stride * y + x is outside the vector.                  *)
(***************************************************************************)
C8_OutOfRangePanics ==
    [][(dims[1] > 0 /\ dims[2] > 0) =>
         \A p \in Coords : ~InRange(world, p[1], p[2]) =>
            /\ (\E c \in Cell : DoSetCell(p[1], p[2], c)) => (panic' # NoPanic /\ world' = world)
            /\ DoCellAt(p[1], p[2]) => (panic' # NoPanic /\ ret' = NoRet)]_vars

(***************************************************************************)
(* C9: World::new fails when a dimension is not positive, so that no World *)
(* has a width() or a height() that is not positive.  The code checks      *)
(* neither dimension.                                                      *)
(***************************************************************************)
C9_NewRejectsNonPositive ==
    (op = "new" /\ (dims[1] <= 0 \/ dims[2] <= 0)) => (panic # NoPanic /\ world = NoWorld)

(***************************************************************************)
(* C10: on a world built with positive dimensions and called within its    *)
(* grid no next_gen panics, both slots stay full, and each next_gen swaps  *)
(* the vectors once: the vector allocated second is the front one after an *)
(* even number of calls, the one allocated first after an odd number.      *)
(***************************************************************************)
C10_NextGenTotal ==
    /\ panic = NoPanic
    /\ is_some(world.cells.front) /\ is_some(world.cells.back)
    /\ unwrap(world.cells.front).id = (IF gens % 2 = 0 THEN "second" ELSE "first")
    /\ unwrap(world.cells.back).id = (IF gens % 2 = 0 THEN "first" ELSE "second")

\* Two next_gen calls in a row on a grid with Alive cells on its last column
\* and its last row, where neighbour_count looks past the vector.
C10_Witness ==
    /\ ticks = 2 /\ panic = NoPanic
    /\ \E p \in AliveSet(gen0) : p[1] = width(gen0) - 1 /\ p[2] = height(gen0).value - 1

(***************************************************************************)
(* C11: the grid after next_gen, and after a set_cell, is a function of    *)
(* the grid before alone.  Every world with the stride and the front cells *)
(* of the current one but another history (another content of the back    *)
(* vector, the two allocations the other way round) gives the same grid    *)
(* after the call the current world made, and again after one more         *)
(* next_gen.                                                               *)
(***************************************************************************)
Flip(cells) == [j \in 1..Len(cells) |-> IF cells[j] = Alive THEN Dead ELSE Alive]

Histories(w) ==
    {[stride |-> w.stride,
      cells |-> [back |-> Some([id |-> ids[1], cells |-> b]),
                 front |-> Some([id |-> ids[2], cells |-> front_cells(w)])]] :
        b \in {[j \in 1..Len(back_cells(w)) |-> Dead], [j \in 1..Len(back_cells(w)) |-> Alive],
               front_cells(w), Flip(back_cells(w))},
        ids \in {<<"first", "second">>, <<"second", "first">>}}

SameGrid(a, b) == a.stride = b.stride /\ front_cells(a) = front_cells(b)

\* (A result used more than once is bound by a quantifier over a one-element
\* set, which computes it once.)
C11_NoHiddenState ==
    [][panic' = NoPanic =>
         \A twins \in {Histories(world)} :
            /\ op' = "next_gen" =>
                  \A after \in {next_gen(world').world}, t \in twins :
                     \A r \in {next_gen(t)} :
                        /\ r.panic = NoPanic
                        /\ SameGrid(r.world, world')
                        /\ SameGrid(next_gen(r.world).world, after)
            /\ op' = "set_cell" =>
                  \A p \in Grid, c \in Cell :
                     (InRange(world, p[1], p[2]) /\ DoSetCell(p[1], p[2], c)) =>
                        \A t \in twins :
                           \A r \in {set_cell(t, p[1], p[2], c)} :
                              r.panic = NoPanic /\ SameGrid(r.world, world')]_vars

\* A next_gen on a grid with Alive cells whose back vector holds Alive cells
\* of an earlier generation.
C11_Witness ==
    /\ op = "next_gen" /\ gens >= 2 /\ panic = NoPanic
    /\ AliveSet(world) # {}
    /\ ~AllDead(back_cells(world))
    /\ back_cells(world) # front_cells(world)

(***************************************************************************)
(* C12: one next_gen on a grid whose only Alive cell is (x, y) leaves      *)
(* (x, y) Dead, wherever the cell is and however narrow the grid.          *)
(***************************************************************************)
C12_LoneCellDies ==
    (ticks = 1 /\ is_some(gen0.cells.front) /\ Cardinality(AliveSet(gen0)) = 1) =>
       /\ panic = NoPanic
       /\ \A p \in AliveSet(gen0) : cell_at(world, p[1], p[2]) = [value |-> Dead, panic |-> NoPanic]

\* The lone cell of a grid of width 1, below the first row: neighbour_count
\* reads the cell itself as its neighbour (1, y - 1), and returns 1.
C12_Witness ==
    /\ ticks = 1 /\ panic = NoPanic
    /\ width(gen0) = 1
    /\ AliveSet(gen0) = {<<0, 1>>}
    /\ neighbour_count(gen0, 0, 1).value = 1

(***************************************************************************)
(* C13: neighbour_count of a cell of the grid returns a value from 0 to 8, *)
(* whatever the front vector holds.                                        *)
(***************************************************************************)
C13_NeighbourCountRange ==
    op = "neighbour_count" => (panic = NoPanic /\ ret \in 0..8)

\* The call returned 8: all eight reads found Alive cells.
C13_Witness == op = "neighbour_count" /\ panic = NoPanic /\ ret = 8

(***************************************************************************)
(* C14: a world built with positive dimensions and called within its grid  *)
(* keeps two vectors of width * height cells each; width() and height()    *)
(* return the dimensions it was built with.                                *)
(***************************************************************************)
C14_ShapeKept ==
    /\ is_some(world.cells.front) /\ is_some(world.cells.back)
    /\ Len(front_cells(world)) = dims[1] * dims[2]
    /\ Len(back_cells(world)) = dims[1] * dims[2]
    /\ width(world) = dims[1]
    /\ height(world) = [value |-> dims[2], panic |-> NoPanic]

\* A grid that is not square, after set_cell calls and next_gen calls.
C14_Witness ==
    /\ dims = <<2, 3>> /\ edits >= 2 /\ gens >= 2 /\ panic = NoPanic
    /\ height(world).value = 3 /\ width(world) = 2

(***************************************************************************)
(* C15: both slots are full in every state; swap puts each vector in the   *)
(* other slot, losing and duplicating neither; and right after a next_gen  *)
(* the back vector is the vector that was the front one before the call,   *)
(* cell for cell, while the front one is the allocation that was the back. *)
(***************************************************************************)
C15_SwapExchanges ==
    /\ is_some(world.cells.front) /\ is_some(world.cells.back)
    /\ unwrap(world.cells.front).id # unwrap(world.cells.back).id
    /\ swap(world.cells) = [cells |-> [back |-> world.cells.front, front |-> world.cells.back],
                            panic |-> NoPanic]
    /\ ticks = 1 =>
          /\ world.cells.back = gen0.cells.front
          /\ unwrap(world.cells.front).id = unwrap(gen0.cells.back).id

\* A next_gen that changed the grid, on a world whose back vector differed
\* from the front one.
C15_Witness ==
    /\ ticks = 1 /\ panic = NoPanic
    /\ AliveSet(gen0) # {}
    /\ front_cells(world) # back_cells(world)
    /\ back_cells(gen0) # front_cells(gen0)
    /\ back_cells(world) = front_cells(gen0)

(***************************************************************************)
(* C16: a set_cell(x, y, c) of a cell of the grid changes no cell of the   *)
(* front vector but (x, y), leaves the back vector, width() and height()   *)
(* as they were, and swaps nothing.  (A call that leaves the world as it   *)
(* was changes none of them.)                                              *)
(***************************************************************************)
C16_SetCellFrame ==
    [][op' = "set_cell" =>
         \A p \in Grid, c \in Cell :
            (InRange(world, p[1], p[2]) /\ DoSetCell(p[1], p[2], c)) =>
               /\ panic' = NoPanic
               /\ \/ world' = world
                  \/ /\ \A q \in Grid : (InRange(world, q[1], q[2]) /\ q # p) =>
                           cell_at(world', q[1], q[2]) = cell_at(world, q[1], q[2])
                     /\ \A j \in 1..Len(front_cells(world)) :
                           j # index(world, p[1], p[2]) + 1 =>
                              front_cells(world')[j] = front_cells(world)[j]
                     /\ Len(front_cells(world')) = Len(front_cells(world))
                     /\ world'.cells.back = world.cells.back
                     /\ unwrap(world'.cells.front).id = unwrap(world.cells.front).id
                     /\ width(world') = width(world)
                     /\ height(world') = height(world)]_vars

\* A set_cell on a grid with other Alive cells, after a next_gen left Alive
\* cells in the back vector.
C16_Witness ==
    /\ op = "set_cell" /\ panic = NoPanic /\ gens >= 1
    /\ Cardinality(AliveSet(world)) >= 2
    /\ ~AllDead(back_cells(world))

(***************************************************************************)
(* C17: whatever resume and pause calls were made, at most one interval is *)
(* registered with the host, and timer_closure is Some exactly when        *)
(* timer_id is not -1 exactly when an interval is registered (the one of   *)
(* timer_id); a resume on a running State and a pause on one that is not   *)
(* running change neither the State nor the host's timers.  A pause on a   *)
(* running State stops after clear_interval (C18), with timer_id still     *)
(* set.                                                                    *)
(***************************************************************************)
TimerRegistered(i, h) ==
    /\ Cardinality(h.intervals) <= 1
    /\ is_some(i.timer_closure) <=> i.timer_id # NoTimer
    /\ i.timer_id # NoTimer <=> h.intervals # {}
    /\ i.timer_id # NoTimer => h.intervals = {i.timer_id}

C17_OneTimer ==
    [][/\ TimerRegistered(inner', host')
       /\ (op' = "resume" /\ is_some(inner.timer_closure)) =>
             (panic' = NoPanic /\ inner' = inner /\ host' = host)
       /\ (op' = "pause" /\ ~is_some(inner.timer_closure)) =>
             (panic' = NoPanic /\ inner' = inner /\ host' = host)]_vars

(***************************************************************************)
(* C18: a pause, and the drop of a State handle, return without a panic    *)
(* and leave the State not running (timer_closure None, timer_id -1) with  *)
(* its RefCell not borrowed.  On a running State the code drops the timer  *)
(* closure while pause holds the borrow; the closure drops its State       *)
(* handle, whose drop calls pause, whose borrow_mut panics.                *)
(***************************************************************************)
C18_PauseCompletes ==
    op \in {"pause", "drop"} =>
       /\ panic = NoPanic
       /\ ~borrowed
       /\ inner.timer_closure = None
       /\ inner.timer_id = NoTimer

(***************************************************************************)
(* C19: is_mouse_down is true exactly when the last mouse button event was *)
(* an on_mouse_down.  on_mouse_down(p) sets cell p Alive; on_mouse_move(p) *)
(* sets cell p Alive when is_mouse_down is true and changes no cell when   *)
(* it is false; no mouse event makes an Alive cell Dead or changes a cell  *)
(* other than p; a tick leaves is_mouse_down as it was.                    *)
(***************************************************************************)
Painted(w, v, p) ==
    /\ cell_at(v, p[1], p[2]) = [value |-> Alive, panic |-> NoPanic]
    /\ \A q \in Board : (InRange(w, q[1], q[2]) /\ q # p) =>
          cell_at(v, q[1], q[2]) = cell_at(w, q[1], q[2])

C19_MouseGate ==
    [][/\ panic' = NoPanic => (inner'.is_mouse_down <=> last_button' = "down")
       /\ op' = "tick" => inner'.is_mouse_down = inner.is_mouse_down
       /\ op' = "on_mouse_up" => (panic' = NoPanic /\ world' = world /\ ~inner'.is_mouse_down)
       /\ op' = "on_mouse_down" =>
             \A p \in Board : (InRange(world, p[1], p[2]) /\ DoOnMouseDown(p[1], p[2])) =>
                (panic' = NoPanic /\ Painted(world, world', p))
       /\ op' = "on_mouse_move" =>
             \A p \in Board : (InRange(world, p[1], p[2]) /\ DoOnMouseMove(p[1], p[2])) =>
                /\ panic' = NoPanic
                /\ last_button = "down" => Painted(world, world', p)
                /\ last_button # "down" => world' = world]_vars

\* An on_mouse_move with the button down, after a tick of the timer, on a
\* grid with two cells painted.
C19_Witness ==
    /\ op = "on_mouse_move" /\ panic = NoPanic
    /\ last_button = "down" /\ inner.is_mouse_down
    /\ gens >= 1 /\ edits = 2
    /\ Cardinality(AliveSet(world)) >= 2
    /\ canvas = AliveSet(world)

====
